---- MODULE Spec2Model ----
(***************************************************************************)
(* A model of infra/mongo.go of Cogman: the MongoClient handle, its        *)
(* session map (StartTransaction / CommitTransaction), its index           *)
(* administration (SetTTL, EnsureIndices, DropIndices) and its CRUD        *)
(* facade (Get, Create, Update, UpdatePartial, List) on the one fixed      *)
(* collection.  The MongoDB driver and server are the environment: every   *)
(* driver call either fails (an input of the action) or has the effect the *)
(* driver documents.                                                       *)
(***************************************************************************)
EXTENDS Integers, Sequences, FiniteSets, TLC

VARIABLES
    sess,        \* MongoClient.sess: map[string]mongo.Session (id -> session handle)
    sessions,    \* driver side: the sessions StartSession has handed out, by handle
    collection,  \* store side: the documents of cogman.tasks, in natural order
    indexes,     \* store side: the indexes of cogman.tasks
    ExpDur,      \* MongoClient.ExpDur
    last,        \* the last call: its operation, inputs and what it returned
    procs,       \* the call each goroutine is in, statement by statement
    ctxs,        \* the contexts context.WithCancel has made: cancelled or not
    mapState     \* the Go map behind sess: "ok", or what a data race made of it

vars == <<sess, sessions, collection, indexes, ExpDur, last, procs, ctxs,
          mapState>>

----------------------------------------------------------------------------
(* Bounds of the model *)

\* sessions the driver hands out in one run
MaxSessions == 3
\* documents the collection holds at most (Create is cut off there)
MaxDocs == 2
\* index descriptors in one EnsureIndices call
MaxBatch == 2

\* transaction identifiers callers use
Ids == {"t1", "t2"}

\* goroutines that call the handle
Callers == {"g1", "g2"}

----------------------------------------------------------------------------
(* Values *)

\* a call that has not happened / the nil error
Nil == "nil"
\* a Go run-time panic (nil interface method call)
Panic == "panic"
\* a context that carries no session: context.Background() and its children
NoSession == 0

\* errors of the driver
ErrStartSession == "mongo: StartSession failed"
ErrStartTransaction == "mongo: StartTransaction failed"
ErrNoTransactStarted == "mongo: no transaction started"
ErrCommit == "mongo: commit rejected"
ErrNoDocuments == "mongo: no documents in result"
ErrStore == "mongo: command failed"

\* infra.ErrNotFound, the package's own sentinel
ErrNotFound == "infra: not found"

\* a goroutine that is in no call
IdleProc == [pc |-> "idle"]

\* a Go map no data race has touched
MapOk == [kind |-> "ok"]

----------------------------------------------------------------------------
(* Session / transaction tracker *)

\* m.sess[id] = s
MapPut(m, id, s) ==
    [j \in DOMAIN m \cup {id} |-> IF j = id THEN s ELSE m[j]]

\* the entry is not removed
MapDeleteForgotten(m, id) == m

\* delete(m.sess, id)
MapDelete(m, id) ==
    [j \in DOMAIN m \ {id} |-> m[j]]

\* mcl.StartSession(): a fresh session, no transaction on it
NewSession == [txn |-> "none", ended |-> FALSE]

\* StartTransaction that refuses an id that has an entry
StartTransactionRejectsActive(id, sessOk, txnOk) ==
    /\ Len(sessions) < MaxSessions
    /\ IF id \in DOMAIN sess \/ ~sessOk
       THEN /\ UNCHANGED <<sess, sessions>>
            /\ last' = [op |-> "StartTransaction", id |-> id,
                        known |-> id \in DOMAIN sess, session |-> NoSession,
                        accept |-> sessOk /\ txnOk, err |-> ErrStartSession]
       ELSE /\ sess' = MapPut(sess, id, Len(sessions) + 1)
            /\ sessions' = Append(sessions,
                   IF txnOk THEN [txn |-> "started", ended |-> FALSE]
                            ELSE [txn |-> "none", ended |-> FALSE])
            /\ last' = [op |-> "StartTransaction", id |-> id,
                        known |-> FALSE, session |-> Len(sessions) + 1,
                        accept |-> txnOk,
                        err |-> IF txnOk THEN Nil ELSE ErrStartTransaction]
    /\ UNCHANGED <<collection, indexes, ExpDur, procs, ctxs, mapState>>

\* StartTransaction that takes the entry back when the transaction does not
\* start, and leaves the session open
StartTransactionDropsFailedEntry(id, sessOk, txnOk) ==
    /\ Len(sessions) < MaxSessions
    /\ IF ~sessOk
       THEN /\ UNCHANGED <<sess, sessions>>
            /\ last' = [op |-> "StartTransaction", id |-> id,
                        known |-> id \in DOMAIN sess, session |-> NoSession,
                        accept |-> FALSE, err |-> ErrStartSession]
       ELSE /\ sess' = IF txnOk THEN MapPut(sess, id, Len(sessions) + 1)
                       ELSE [j \in DOMAIN sess \ {id} |-> sess[j]]
            /\ sessions' = Append(sessions,
                   IF txnOk THEN [txn |-> "started", ended |-> FALSE]
                            ELSE [txn |-> "none", ended |-> FALSE])
            /\ last' = [op |-> "StartTransaction", id |-> id,
                        known |-> id \in DOMAIN sess,
                        session |-> Len(sessions) + 1, accept |-> txnOk,
                        err |-> IF txnOk THEN Nil ELSE ErrStartTransaction]
    /\ UNCHANGED <<collection, indexes, ExpDur, procs, ctxs, mapState>>

\* StartTransaction(id); sessOk, txnOk: whether the driver accepts
\* StartSession and Session.StartTransaction
StartTransaction(id, sessOk, txnOk) ==
    /\ Len(sessions) < MaxSessions
    /\ IF ~sessOk
       THEN /\ UNCHANGED <<sess, sessions>>
            /\ last' = [op |-> "StartTransaction", id |-> id,
                        known |-> id \in DOMAIN sess, session |-> NoSession,
                        accept |-> FALSE, err |-> ErrStartSession]
       ELSE LET s == Len(sessions) + 1 IN
            /\ sess' = MapPut(sess, id, s)
            /\ sessions' = Append(sessions,
                   IF txnOk THEN [NewSession EXCEPT !.txn = "started"]
                            ELSE NewSession)
            /\ last' = [op |-> "StartTransaction", id |-> id,
                        known |-> id \in DOMAIN sess, session |-> s,
                        accept |-> txnOk,
                        err |-> IF txnOk THEN Nil ELSE ErrStartTransaction]
    /\ UNCHANGED <<collection, indexes, ExpDur, procs, ctxs, mapState>>

\* Session.CommitTransaction(ctx) of the driver on session s: the error it
\* returns; commitOk: whether the store accepts the commit
CommitErr(s, commitOk) ==
    IF sessions[s].txn # "started" THEN ErrNoTransactStarted
    ELSE IF commitOk THEN Nil
    ELSE ErrCommit

\* CommitTransaction that ends the session and removes the entry whatever the
\* commit returned
CommitTransactionAlwaysCleans(id, commitOk) ==
    /\ id \in DOMAIN sess
    /\ sessions' = [sessions EXCEPT ![sess[id]].ended = TRUE,
                                    ![sess[id]].txn =
                                        IF CommitErr(sess[id], commitOk) = Nil
                                        THEN "committed" ELSE @]
    /\ sess' = [j \in DOMAIN sess \ {id} |-> sess[j]]
    /\ last' = [op |-> "CommitTransaction", id |-> id, known |-> TRUE,
                session |-> sess[id], accept |-> commitOk,
                err |-> CommitErr(sess[id], commitOk)]
    /\ UNCHANGED <<collection, indexes, ExpDur, procs, ctxs, mapState>>

\* CommitTransaction(id, ctx)
CommitTransaction(id, commitOk) ==
    /\ IF id \notin DOMAIN sess
       THEN \* m.sess[id] is the nil interface: the method call panics
            /\ UNCHANGED <<sess, sessions>>
            /\ last' = [op |-> "CommitTransaction", id |-> id, known |-> FALSE,
                        session |-> NoSession, accept |-> commitOk,
                        err |-> Panic]
       ELSE LET s == sess[id]
                err == CommitErr(s, commitOk) IN
            /\ IF err # Nil
               THEN UNCHANGED <<sess, sessions>>
               ELSE /\ sessions' = [sessions EXCEPT
                                       ![s] = [txn |-> "committed", ended |-> TRUE]]
                    /\ sess' = MapDelete(sess, id)
            /\ last' = [op |-> "CommitTransaction", id |-> id, known |-> TRUE,
                        session |-> s, accept |-> commitOk, err |-> err]
    /\ UNCHANGED <<collection, indexes, ExpDur, procs, ctxs, mapState>>

----------------------------------------------------------------------------
(* The tracker statement by statement, for goroutines that run together *)

ErrSessionEnded == "mongo: session ended"
ErrTransactInProgress == "mongo: transaction already in progress"

\* goroutine c is in no call
NotInCall(c) == procs[c].pc = "idle"

\* the goroutines other than c that are inside a write of the Go map
\* (runtime.mapassign, runtime.mapdelete)
Writers(c) == {d \in Callers \ {c} : procs[d].pc \in {"assigning", "deleting"}}

\* what the map is after goroutine c, running op for id, touched it: the Go
\* map has no lock, so an access while another goroutine writes is a data
\* race; the runtime throws "concurrent map writes" / "concurrent map read
\* and map write" when it notices, and otherwise the map may be damaged or
\* may come out well
MapAfterAccess(c, op, id) ==
    IF Writers(c) = {} THEN {mapState}
    ELSE {mapState} \cup
         {[kind |-> k, ops |-> {op, procs[d].op}, ids |-> {id, procs[d].id}] :
             k \in {"fatal", "corrupt"}, d \in Writers(c)}

\* a goroutine runs only while the process lives and the map is sound
Running == mapState.kind = "ok"

\* the frame of a call in flight
Frame(pc, op, id, s, err) ==
    [pc |-> pc, op |-> op, id |-> id, s |-> s, err |-> err]

\* StartTransaction, line 46: sess, err := m.mcl.StartSession()
StartSessionStep(c, id, sessOk) ==
    /\ Running
    /\ NotInCall(c)
    /\ Len(sessions) < MaxSessions
    /\ IF sessOk
       THEN /\ sessions' = Append(sessions, NewSession)
            /\ procs' = [procs EXCEPT ![c] =
                   Frame("assign", "StartTransaction", id, Len(sessions) + 1, Nil)]
       ELSE /\ UNCHANGED sessions
            /\ procs' = [procs EXCEPT ![c] =
                   Frame("return", "StartTransaction", id, NoSession,
                         ErrStartSession)]
    /\ UNCHANGED <<sess, collection, indexes, ExpDur, last, ctxs, mapState>>

\* StartTransaction, line 51: m.sess[id] = sess, entering the map write
MapAssignBegin(c) ==
    /\ Running
    /\ procs[c].pc = "assign"
    /\ mapState' \in MapAfterAccess(c, procs[c].op, procs[c].id)
    /\ procs' = [procs EXCEPT ![c].pc = "assigning"]
    /\ UNCHANGED <<sess, sessions, collection, indexes, ExpDur, last, ctxs>>

\* StartTransaction, line 51: the map write takes effect
MapAssignEnd(c) ==
    /\ Running
    /\ procs[c].pc = "assigning"
    /\ sess' = MapPut(sess, procs[c].id, procs[c].s)
    /\ procs' = [procs EXCEPT ![c].pc = "starttxn"]
    /\ UNCHANGED <<sessions, collection, indexes, ExpDur, last, ctxs, mapState>>

\* Session.StartTransaction of the driver on session t: the error it returns
StartTxnErr(t, txnOk) ==
    IF sessions[t].ended THEN ErrSessionEnded
    ELSE IF sessions[t].txn = "started" THEN ErrTransactInProgress
    ELSE IF txnOk THEN Nil
    ELSE ErrStartTransaction

\* StartTransaction, line 52: return nil, m.sess[id].StartTransaction(); the
\* map is read again
StartTxnStep(c, txnOk) ==
    LET id == procs[c].id IN
    /\ Running
    /\ procs[c].pc = "starttxn"
    /\ mapState' \in MapAfterAccess(c, procs[c].op, id)
    /\ IF id \notin DOMAIN sess
       THEN /\ UNCHANGED sessions
            /\ procs' = [procs EXCEPT ![c].pc = "return", ![c].err = Panic]
       ELSE LET err == StartTxnErr(sess[id], txnOk) IN
            /\ sessions' = IF err = Nil
                           THEN [sessions EXCEPT ![sess[id]].txn = "started"]
                           ELSE sessions
            /\ procs' = [procs EXCEPT ![c].pc = "return", ![c].err = err]
    /\ UNCHANGED <<sess, collection, indexes, ExpDur, last, ctxs>>

\* CommitTransaction, lines 56-59: err := m.sess[id].CommitTransaction(ctx)
CommitStep(c, id, commitOk) ==
    /\ Running
    /\ NotInCall(c)
    /\ mapState' \in MapAfterAccess(c, "CommitTransaction", id)
    /\ IF id \notin DOMAIN sess
       THEN /\ UNCHANGED sessions
            /\ procs' = [procs EXCEPT ![c] =
                   Frame("return", "CommitTransaction", id, NoSession, Panic)]
       ELSE LET s == sess[id]
                err == IF sessions[s].ended THEN ErrSessionEnded
                       ELSE CommitErr(s, commitOk) IN
            /\ sessions' = IF err = Nil
                           THEN [sessions EXCEPT ![s].txn = "committed"]
                           ELSE sessions
            /\ procs' = [procs EXCEPT ![c] =
                   Frame(IF err = Nil THEN "end" ELSE "return",
                         "CommitTransaction", id, s, err)]
    /\ UNCHANGED <<sess, collection, indexes, ExpDur, last, ctxs>>

\* CommitTransaction that goes from the commit to the delete
EndSessionSkipped(c) ==
    /\ Running
    /\ procs[c].pc = "end"
    /\ procs' = [procs EXCEPT ![c].pc = "delete"]
    /\ UNCHANGED <<sess, sessions, collection, indexes, ExpDur, last, ctxs,
                   mapState>>

\* CommitTransaction, line 60: m.sess[id].EndSession(ctx); the map is read
\* again
EndSessionStep(c) ==
    LET id == procs[c].id IN
    /\ Running
    /\ procs[c].pc = "end"
    /\ mapState' \in MapAfterAccess(c, procs[c].op, id)
    /\ IF id \notin DOMAIN sess
       THEN /\ UNCHANGED sessions
            /\ procs' = [procs EXCEPT ![c].pc = "return", ![c].err = Panic]
       ELSE /\ sessions' = [sessions EXCEPT ![sess[id]].ended = TRUE]
            /\ procs' = [procs EXCEPT ![c].pc = "delete"]
    /\ UNCHANGED <<sess, collection, indexes, ExpDur, last, ctxs>>

\* CommitTransaction, line 61: delete(m.sess, id), entering the map write
MapDeleteBegin(c) ==
    /\ Running
    /\ procs[c].pc = "delete"
    /\ mapState' \in MapAfterAccess(c, procs[c].op, procs[c].id)
    /\ procs' = [procs EXCEPT ![c].pc = "deleting"]
    /\ UNCHANGED <<sess, sessions, collection, indexes, ExpDur, last, ctxs>>

\* CommitTransaction, line 61: the map write takes effect
MapDeleteEnd(c) ==
    /\ Running
    /\ procs[c].pc = "deleting"
    /\ sess' = MapDelete(sess, procs[c].id)
    /\ procs' = [procs EXCEPT ![c].pc = "return"]
    /\ UNCHANGED <<sessions, collection, indexes, ExpDur, last, ctxs, mapState>>

\* the call returns (or panics) to its caller
TrackerReturn(c) ==
    /\ Running
    /\ procs[c].pc = "return"
    /\ procs[c].op \in {"StartTransaction", "CommitTransaction"}
    /\ last' = [op |-> procs[c].op, id |-> procs[c].id,
                session |-> procs[c].s, err |-> procs[c].err, caller |-> c]
    /\ procs' = [procs EXCEPT ![c] = IdleProc]
    /\ UNCHANGED <<sess, sessions, collection, indexes, ExpDur, ctxs, mapState>>

----------------------------------------------------------------------------
(* CRUD facade on the fixed collection *)

\* what a document says in the field queries look at, and the rest of it
Keys == {"a", "b"}
Vals == {"x", "y"}
Docs == [k : Keys, v : Vals]

\* a filter, by the keys it matches: bson.M{} matches every document
Queries == SUBSET Keys
QAll == Keys

\* context.WithCancel(context.Background()): the context every CRUD and
\* index call hands to the driver; it carries no session
RequestContext == [session |-> NoSession]

Matches(d, q) == d.k \in q

\* the offsets (from 1) of the documents of coll that q matches
MatchSet(coll, q) == {i \in 1..Len(coll) : Matches(coll[i], q)}

\* the first document q matches, in store order; 0 when there is none
FirstMatch(coll, q) ==
    IF MatchSet(coll, q) = {} THEN 0
    ELSE CHOOSE i \in MatchSet(coll, q) : \A j \in MatchSet(coll, q) : i <= j

\* Collection.FindOne: the document found (<<>> when there is none) and
\* SingleResult.Err()
FindOne(coll, q, fail) ==
    IF fail THEN [doc |-> <<>>, err |-> ErrStore]
    ELSE IF FirstMatch(coll, q) = 0 THEN [doc |-> <<>>, err |-> ErrNoDocuments]
    ELSE [doc |-> <<coll[FirstMatch(coll, q)]>>, err |-> Nil]

\* Collection.InsertOne
InsertOne(coll, t, fail) ==
    IF fail THEN [coll |-> coll, err |-> ErrStore]
    ELSE [coll |-> Append(coll, t), err |-> Nil]

\* Collection.ReplaceOne: the first match becomes val
ReplaceOne(coll, q, val, fail) ==
    IF fail THEN [coll |-> coll, MatchedCount |-> 0, err |-> ErrStore]
    ELSE IF FirstMatch(coll, q) = 0
    THEN [coll |-> coll, MatchedCount |-> 0, err |-> Nil]
    ELSE [coll |-> [coll EXCEPT ![FirstMatch(coll, q)] = val],
          MatchedCount |-> 1, err |-> Nil]

\* a patch {$set: {v: x}} applied to a document
ApplyPatch(d, x) == [d EXCEPT !.v = x]

\* Collection.UpdateOne: the first match is patched
UpdateOne(coll, q, x, fail) ==
    IF fail THEN [coll |-> coll, MatchedCount |-> 0, err |-> ErrStore]
    ELSE IF FirstMatch(coll, q) = 0
    THEN [coll |-> coll, MatchedCount |-> 0, err |-> Nil]
    ELSE [coll |-> [coll EXCEPT ![FirstMatch(coll, q)] =
                        ApplyPatch(coll[FirstMatch(coll, q)], x)],
          MatchedCount |-> 1, err |-> Nil]

\* the documents of coll that q matches, in store order
Selected(coll, q) == SelectSeq(coll, LAMBDA d : Matches(d, q))

\* FindOptions.SetSkip(skip).SetLimit(limit) applied to the matches: the
\* server drops the first skip of them and, when limit is not 0, cuts the
\* rest after limit
SkipLimit(ms, skip, limit) ==
    LET rest == SubSeq(ms, skip + 1, Len(ms)) IN
    IF limit = 0 THEN rest
    ELSE SubSeq(rest, 1, IF limit < Len(rest) THEN limit ELSE Len(rest))

\* Collection.Find: the cursor's documents
Find(coll, q, skip, limit, fail) ==
    IF fail THEN [cursor |-> <<>>, err |-> ErrStore]
    ELSE [cursor |-> SkipLimit(Selected(coll, q), skip, limit), err |-> Nil]

\* Get(q)
Get(q, fail) ==
    LET ctx == RequestContext
        resp == FindOne(collection, q, fail) IN
    /\ last' = [op |-> "Get", q |-> q, fail |-> fail, session |-> ctx.session,
                err |-> resp.err, doc |-> resp.doc]
    /\ UNCHANGED <<sess, sessions, collection, indexes, ExpDur, procs, ctxs, mapState>>

\* Create(t)
Create(t, fail) ==
    LET ctx == RequestContext
        r == InsertOne(collection, t, fail) IN
    /\ Len(collection) < MaxDocs
    /\ collection' = r.coll
    /\ last' = [op |-> "Create", val |-> t, fail |-> fail,
                session |-> ctx.session, err |-> r.err]
    /\ UNCHANGED <<sess, sessions, indexes, ExpDur, procs, ctxs, mapState>>

\* Update that does not look at MatchedCount
UpdateIgnoresMatchedCount(q, val, fail) ==
    LET ctx == RequestContext
        resp == ReplaceOne(collection, q, val, fail) IN
    /\ collection' = resp.coll
    /\ last' = [op |-> "Update", q |-> q, val |-> val, fail |-> fail,
                session |-> ctx.session, err |-> resp.err]
    /\ UNCHANGED <<sess, sessions, indexes, ExpDur, procs, ctxs, mapState>>

\* Update(q, val)
Update(q, val, fail) ==
    LET ctx == RequestContext
        resp == ReplaceOne(collection, q, val, fail) IN
    /\ collection' = resp.coll
    /\ last' = [op |-> "Update", q |-> q, val |-> val, fail |-> fail,
                session |-> ctx.session,
                err |-> IF resp.err # Nil THEN resp.err
                        ELSE IF resp.MatchedCount = 0 THEN ErrNotFound
                        ELSE Nil]
    /\ UNCHANGED <<sess, sessions, indexes, ExpDur, procs, ctxs, mapState>>

\* UpdatePartial(q, val); val is the patch {$set: {v: x}}
UpdatePartial(q, x, fail) ==
    LET ctx == RequestContext
        resp == UpdateOne(collection, q, x, fail) IN
    /\ collection' = resp.coll
    /\ last' = [op |-> "UpdatePartial", q |-> q, val |-> x, fail |-> fail,
                session |-> ctx.session,
                err |-> IF resp.err # Nil THEN resp.err
                        ELSE IF resp.MatchedCount = 0 THEN ErrNotFound
                        ELSE Nil]
    /\ UNCHANGED <<sess, sessions, indexes, ExpDur, procs, ctxs, mapState>>

\* List that hands skip to SetLimit and limit to SetSkip
ListSkipLimitSwapped(q, skip, limit, fail) ==
    LET ctx == RequestContext
        r == Find(collection, q, limit, skip, fail) IN
    /\ last' = [op |-> "List", q |-> q, skip |-> skip, limit |-> limit,
                fail |-> fail, session |-> ctx.session,
                err |-> r.err, cursor |-> r.cursor]
    /\ UNCHANGED <<sess, sessions, collection, indexes, ExpDur, procs, ctxs, mapState>>

\* List(q, skip, limit)
List(q, skip, limit, fail) ==
    LET ctx == RequestContext
        r == Find(collection, q, skip, limit, fail) IN
    /\ last' = [op |-> "List", q |-> q, skip |-> skip, limit |-> limit,
                fail |-> fail, session |-> ctx.session,
                err |-> r.err, cursor |-> r.cursor]
    /\ UNCHANGED <<sess, sessions, collection, indexes, ExpDur, procs, ctxs, mapState>>

----------------------------------------------------------------------------
(* Index administration *)

\* IndexOptions.ExpireAfterSeconds left unset
NoExpire == -1

\* the values a handle's ExpDur and an existing TTL index's expiry take
ExpVals == {60, 3600}

\* the mandatory index on _id, which no drop removes
IdIndex == [name |-> "_id_", keys |-> <<[Key |-> "_id", dir |-> 1]>>,
            unique |-> FALSE, sparse |-> FALSE, expire |-> NoExpire]

\* the index SetTTL builds, with expiry e
TTLModel(e) == [name |-> "TTL", keys |-> <<[Key |-> "created_at", dir |-> 1]>>,
                unique |-> FALSE, sparse |-> FALSE, expire |-> e]

\* Index.model() that takes every key as ascending
modelAscendingOnly(i) ==
    [name |-> i.Name,
     keys |-> [j \in 1..Len(i.Keys) |-> [Key |-> i.Keys[j].Key, dir |-> 1]],
     unique |-> i.Unique, sparse |-> i.Sparse, expire |-> NoExpire]

\* Index.model(): the mongo.IndexModel of a descriptor; name "" is a name
\* left unset
model(i) ==
    [name |-> i.Name,
     keys |-> [j \in 1..Len(i.Keys) |->
                  [Key |-> i.Keys[j].Key,
                   dir |-> IF i.Keys[j].Desc THEN -1 ELSE 1]],
     unique |-> i.Unique, sparse |-> i.Sparse, expire |-> NoExpire]

\* the name the driver gives a model that has none: key_dir joined by "_"
RECURSIVE GenName(_)
GenName(keys) ==
    IF Len(keys) = 0 THEN ""
    ELSE LET k == keys[1]
             head == k.Key \o "_" \o (IF k.dir = 1 THEN "1" ELSE "-1") IN
         IF Len(keys) = 1 THEN head
         ELSE head \o "_" \o GenName(Tail(keys))

\* the index specification the driver sends for a model
Named(mdl) == IF mdl.name = "" THEN [mdl EXCEPT !.name = GenName(mdl.keys)]
              ELSE mdl

\* createIndexes of the server, one specification against the indexes ixs:
\* an identical index is left alone; one of the same name or the same keys
\* that differs is a conflict; no keys is an error
SpecConflicts(ixs, ix) ==
    \/ Len(ix.keys) = 0
    \/ \E o \in ixs : o # ix /\ (o.name = ix.name \/ o.keys = ix.keys)

\* IndexView.CreateMany: every model is checked against the indexes and the
\* models before it; one rejection fails the whole command
RECURSIVE CreateAll(_, _)
CreateAll(ixs, models) ==
    IF Len(models) = 0 THEN [indexes |-> ixs, err |-> Nil]
    ELSE LET ix == Named(models[1]) IN
         IF SpecConflicts(ixs, ix) THEN [indexes |-> ixs, err |-> ErrStore]
         ELSE CreateAll(ixs \cup {ix}, Tail(models))

CreateMany(ixs, models, fail) ==
    IF fail \/ Len(models) = 0 \/ CreateAll(ixs, models).err # Nil
    THEN [indexes |-> ixs, err |-> ErrStore]
    ELSE CreateAll(ixs, models)

\* IndexView.CreateOne
CreateOne(ixs, mdl, fail) == CreateMany(ixs, <<mdl>>, fail)

\* IndexView.DropOne: an error when no index has the name
DropOne(ixs, name, fail) ==
    IF fail \/ ~(\E o \in ixs : o.name = name)
    THEN [indexes |-> ixs, err |-> ErrStore]
    ELSE [indexes |-> {o \in ixs : o.name # name}, err |-> Nil]

\* IndexView.DropAll: every index but the one on _id
DropAll(ixs, fail) ==
    IF fail THEN [indexes |-> ixs, err |-> ErrStore]
    ELSE [indexes |-> {o \in ixs : o.name = "_id_"}, err |-> Nil]

\* SetTTL that returns the error of the drop
SetTTLChecksDrop(dropFail, createFail) ==
    LET ctx == RequestContext
        dropped == DropOne(indexes, "TTL", dropFail)
        r == CreateOne(dropped.indexes, TTLModel(ExpDur), createFail) IN
    /\ indexes' = IF dropped.err # Nil THEN indexes ELSE r.indexes
    /\ last' = [op |-> "SetTTL", session |-> ctx.session,
                hadTTL |-> \E o \in indexes : o.name = "TTL",
                dropErr |-> dropped.err, fail |-> createFail,
                err |-> IF dropped.err # Nil THEN dropped.err ELSE r.err]
    /\ UNCHANGED <<sess, sessions, collection, ExpDur, procs, ctxs, mapState>>

\* SetTTL(); dropFail, createFail: the store fails the drop, the creation
SetTTL(dropFail, createFail) ==
    LET ctx == RequestContext
        dropped == DropOne(indexes, "TTL", dropFail)
        r == CreateOne(dropped.indexes, TTLModel(ExpDur), createFail) IN
    /\ indexes' = r.indexes
    /\ last' = [op |-> "SetTTL", session |-> ctx.session,
                hadTTL |-> \E o \in indexes : o.name = "TTL",
                dropErr |-> dropped.err, fail |-> createFail, err |-> r.err]
    /\ UNCHANGED <<sess, sessions, collection, ExpDur, procs, ctxs, mapState>>

\* EnsureIndices(indices)
EnsureIndices(indices, fail) ==
    LET ctx == RequestContext
        models == [j \in 1..Len(indices) |-> model(indices[j])]
        r == CreateMany(indexes, models, fail) IN
    /\ indexes' = r.indexes
    /\ last' = [op |-> "EnsureIndices", session |-> ctx.session,
                indices |-> indices, storeErr |-> r.err, err |-> r.err]
    /\ UNCHANGED <<sess, sessions, collection, ExpDur, procs, ctxs, mapState>>

\* DropIndices()
DropIndices(fail) ==
    LET ctx == RequestContext
        r == DropAll(indexes, fail) IN
    /\ indexes' = r.indexes
    /\ last' = [op |-> "DropIndices", session |-> ctx.session, err |-> r.err]
    /\ UNCHANGED <<sess, sessions, collection, ExpDur, procs, ctxs, mapState>>

----------------------------------------------------------------------------
(* Request contexts of the CRUD and index calls, statement by statement *)

\* the calls that hand a request context to the driver
ContextOps == {"SetTTL", "EnsureIndices", "DropIndices", "Get", "Create",
               "Update", "UpdatePartial", "List", "Aggregate"}

\* how many request contexts a run creates
MaxContexts == 3

\* context.WithCancel(context.Background()): a context not cancelled yet
WithCancel == [cancelled |-> FALSE]

\* the driver runs no command under a cancelled context
Refused(i, fail) == fail \/ ctxs[i].cancelled

\* Collection.Aggregate with a pipeline of one $match stage q: the cursor's
\* documents
AggregateCursor(coll, q, fail) ==
    IF fail THEN [cursor |-> <<>>, err |-> ErrStore]
    ELSE [cursor |-> Selected(coll, q), err |-> Nil]

\* the locals of a CRUD or index call
CallFrame(pc, op, ctx, err) == [pc |-> pc, op |-> op, ctx |-> ctx, err |-> err]

\* goroutine c is inside a CRUD or index call
InContextCall(c) == procs[c].pc \in {"drop", "driver", "deferred"}

\* goroutine c is about to run the driver command of op
AtDriver(c, op) == procs[c].pc = "driver" /\ procs[c].op = op

\* the command of c's call is over with error err; what is left is the return
Deferred(c, err) ==
    procs' = [procs EXCEPT ![c] = CallFrame("deferred", procs[c].op,
                                            procs[c].ctx, err)]

\* the first lines of every call: ctx, cancel := context.WithCancel(...),
\* defer cancel(), m.getCollection() (which never fails)
EnterCall(c, op) ==
    /\ procs[c].pc = "idle"
    /\ Len(ctxs) < MaxContexts
    /\ ctxs' = Append(ctxs, WithCancel)
    /\ procs' = [procs EXCEPT ![c] =
                    CallFrame(IF op = "SetTTL" THEN "drop" ELSE "driver",
                              op, Len(ctxs) + 1, Nil)]
    /\ UNCHANGED <<sess, sessions, collection, indexes, ExpDur, last, mapState>>

\* SetTTL, line 80: col.Indexes().DropOne(ctx, "TTL"), its error dropped
SetTTLDrop(c, fail) ==
    /\ procs[c].pc = "drop"
    /\ indexes' = DropOne(indexes, "TTL", Refused(procs[c].ctx, fail)).indexes
    /\ procs' = [procs EXCEPT ![c].pc = "driver"]
    /\ UNCHANGED <<sess, sessions, collection, ExpDur, last, ctxs, mapState>>

\* SetTTL, line 93: return col.Indexes().CreateOne(ctx, model)
SetTTLCreate(c, fail) ==
    LET r == CreateOne(indexes, TTLModel(ExpDur), Refused(procs[c].ctx, fail)) IN
    /\ AtDriver(c, "SetTTL")
    /\ indexes' = r.indexes
    /\ Deferred(c, r.err)
    /\ UNCHANGED <<sess, sessions, collection, ExpDur, last, ctxs, mapState>>

\* EnsureIndices, lines 145-152
EnsureIndicesCall(c, indices, fail) ==
    LET models == [j \in 1..Len(indices) |-> model(indices[j])]
        r == CreateMany(indexes, models, Refused(procs[c].ctx, fail)) IN
    /\ AtDriver(c, "EnsureIndices")
    /\ indexes' = r.indexes
    /\ Deferred(c, r.err)
    /\ UNCHANGED <<sess, sessions, collection, ExpDur, last, ctxs, mapState>>

\* DropIndices, lines 167-168
DropIndicesCall(c, fail) ==
    LET r == DropAll(indexes, Refused(procs[c].ctx, fail)) IN
    /\ AtDriver(c, "DropIndices")
    /\ indexes' = r.indexes
    /\ Deferred(c, r.err)
    /\ UNCHANGED <<sess, sessions, collection, ExpDur, last, ctxs, mapState>>

\* Get, lines 199-204
GetCall(c, q, fail) ==
    LET resp == FindOne(collection, q, Refused(procs[c].ctx, fail)) IN
    /\ AtDriver(c, "Get")
    /\ Deferred(c, resp.err)
    /\ UNCHANGED <<sess, sessions, collection, indexes, ExpDur, last, ctxs,
                   mapState>>

\* Create, lines 217-218
CreateCall(c, t, fail) ==
    LET r == InsertOne(collection, t, Refused(procs[c].ctx, fail)) IN
    /\ AtDriver(c, "Create")
    /\ Len(collection) < MaxDocs
    /\ collection' = r.coll
    /\ Deferred(c, r.err)
    /\ UNCHANGED <<sess, sessions, indexes, ExpDur, last, ctxs, mapState>>

\* Update, lines 231-239
UpdateCall(c, q, val, fail) ==
    LET resp == ReplaceOne(collection, q, val, Refused(procs[c].ctx, fail)) IN
    /\ AtDriver(c, "Update")
    /\ collection' = resp.coll
    /\ Deferred(c, IF resp.err # Nil THEN resp.err
                   ELSE IF resp.MatchedCount = 0 THEN ErrNotFound
                   ELSE Nil)
    /\ UNCHANGED <<sess, sessions, indexes, ExpDur, last, ctxs, mapState>>

\* UpdatePartial, lines 252-260
UpdatePartialCall(c, q, x, fail) ==
    LET resp == UpdateOne(collection, q, x, Refused(procs[c].ctx, fail)) IN
    /\ AtDriver(c, "UpdatePartial")
    /\ collection' = resp.coll
    /\ Deferred(c, IF resp.err # Nil THEN resp.err
                   ELSE IF resp.MatchedCount = 0 THEN ErrNotFound
                   ELSE Nil)
    /\ UNCHANGED <<sess, sessions, indexes, ExpDur, last, ctxs, mapState>>

\* List, lines 273-282
ListCall(c, q, skip, limit, fail) ==
    LET r == Find(collection, q, skip, limit, Refused(procs[c].ctx, fail)) IN
    /\ AtDriver(c, "List")
    /\ Deferred(c, r.err)
    /\ UNCHANGED <<sess, sessions, collection, indexes, ExpDur, last, ctxs,
                   mapState>>

\* Aggregate, lines 295-303
AggregateCall(c, q, fail) ==
    LET r == AggregateCursor(collection, q, Refused(procs[c].ctx, fail)) IN
    /\ AtDriver(c, "Aggregate")
    /\ Deferred(c, r.err)
    /\ UNCHANGED <<sess, sessions, collection, indexes, ExpDur, last, ctxs,
                   mapState>>

\* a return that runs the deferred cancel only when the call has no error
ReturnCancelsOnSuccess(c) ==
    /\ procs[c].pc = "deferred"
    /\ ctxs' = IF procs[c].err = Nil
               THEN [ctxs EXCEPT ![procs[c].ctx].cancelled = TRUE]
               ELSE ctxs
    /\ last' = [op |-> procs[c].op, session |-> NoSession,
                ctx |-> procs[c].ctx, err |-> procs[c].err, caller |-> c]
    /\ procs' = [procs EXCEPT ![c] = IdleProc]
    /\ UNCHANGED <<sess, sessions, collection, indexes, ExpDur, mapState>>

\* every return statement of a call: the deferred cancel() runs, then the
\* caller has the result
ReturnCall(c) ==
    /\ procs[c].pc = "deferred"
    /\ ctxs' = [ctxs EXCEPT ![procs[c].ctx].cancelled = TRUE]
    /\ last' = [op |-> procs[c].op, session |-> NoSession,
                ctx |-> procs[c].ctx, err |-> procs[c].err, caller |-> c]
    /\ procs' = [procs EXCEPT ![c] = IdleProc]
    /\ UNCHANGED <<sess, sessions, collection, indexes, ExpDur, mapState>>

----------------------------------------------------------------------------
(* Specifications *)

\* the handle NewMongoClient returns, over a store holding docs and ixs
InitHandle(docs, ixs, ttl) ==
    /\ sess = [j \in {} |-> NoSession]
    /\ sessions = <<>>
    /\ collection = docs
    /\ indexes = ixs
    /\ ExpDur = ttl
    /\ last = [op |-> "NewMongoClient", session |-> NoSession, err |-> Nil]
    /\ procs = [c \in Callers |-> IdleProc]
    /\ ctxs = <<>>
    /\ mapState = MapOk

\* the skips and limits callers pass to List
Offsets == 0..(MaxDocs + 1)

(* The session tracker of one handle *)
Init == InitHandle(<<>>, {IdIndex}, 3600)

Next ==
    \/ \E id \in Ids, sessOk \in BOOLEAN, txnOk \in BOOLEAN :
          StartTransaction(id, sessOk, txnOk)
    \/ \E id \in Ids, commitOk \in BOOLEAN : CommitTransaction(id, commitOk)

Spec == Init /\ [][Next]_vars

(* The session tracker under caller discipline: calls are serialized and no
   caller starts a transaction under an id that has an entry *)
NextDisciplined ==
    \/ \E id \in Ids \ DOMAIN sess, sessOk \in BOOLEAN, txnOk \in BOOLEAN :
          StartTransaction(id, sessOk, txnOk)
    \/ \E id \in Ids, commitOk \in BOOLEAN : CommitTransaction(id, commitOk)

SpecDisciplined == Init /\ [][NextDisciplined]_vars

(* The tracker statement by statement: goroutine c takes its next step *)
TrackerStep(c) ==
    \/ \E id \in Ids, sessOk \in BOOLEAN : StartSessionStep(c, id, sessOk)
    \/ MapAssignBegin(c)
    \/ MapAssignEnd(c)
    \/ \E txnOk \in BOOLEAN : StartTxnStep(c, txnOk)
    \/ \E id \in Ids, commitOk \in BOOLEAN : CommitStep(c, id, commitOk)
    \/ EndSessionStep(c)
    \/ MapDeleteBegin(c)
    \/ MapDeleteEnd(c)
    \/ TrackerReturn(c)

(* calls are serialized: a goroutine enters a call only while no other is in
   one *)
Serialized(c) == \A d \in Callers \ {c} : NotInCall(d)

NextSteps ==
    \/ \E c \in Callers, id \in Ids, sessOk \in BOOLEAN :
          Serialized(c) /\ StartSessionStep(c, id, sessOk)
    \/ \E c \in Callers : MapAssignBegin(c)
    \/ \E c \in Callers : MapAssignEnd(c)
    \/ \E c \in Callers, txnOk \in BOOLEAN : StartTxnStep(c, txnOk)
    \/ \E c \in Callers, id \in Ids, commitOk \in BOOLEAN :
          Serialized(c) /\ CommitStep(c, id, commitOk)
    \/ \E c \in Callers : EndSessionStep(c)
    \/ \E c \in Callers : MapDeleteBegin(c)
    \/ \E c \in Callers : MapDeleteEnd(c)
    \/ \E c \in Callers : TrackerReturn(c)

SpecSteps == Init /\ [][NextSteps]_vars

(* goroutines call the tracker with no synchronization *)
NextConc == \E c \in Callers : TrackerStep(c)

SpecConc == Init /\ [][NextConc]_vars

(* Transactions and CRUD calls of one handle, from an empty collection; the
   callers write documents of one key *)
TxnDocs == {d \in Docs : d.k = "a"}
TxnQueries == {QAll, {"b"}}

NextTxn ==
    \/ \E id \in Ids, sessOk \in BOOLEAN, txnOk \in BOOLEAN :
          StartTransaction(id, sessOk, txnOk)
    \/ \E id \in Ids, commitOk \in BOOLEAN : CommitTransaction(id, commitOk)
    \/ \E q \in TxnQueries, fail \in BOOLEAN : Get(q, fail)
    \/ \E t \in TxnDocs, fail \in BOOLEAN : Create(t, fail)
    \/ \E q \in TxnQueries, val \in TxnDocs, fail \in BOOLEAN :
          Update(q, val, fail)
    \/ \E q \in TxnQueries, x \in Vals, fail \in BOOLEAN :
          UpdatePartial(q, x, fail)
    \/ \E q \in TxnQueries, limit \in {0, 1}, fail \in BOOLEAN :
          List(q, 0, limit, fail)

SpecTxn == Init /\ [][NextTxn]_vars

(* CRUD calls of one handle, from an empty collection *)
NextCrud ==
    \/ \E q \in Queries, fail \in BOOLEAN : Get(q, fail)
    \/ \E t \in Docs, fail \in BOOLEAN : Create(t, fail)
    \/ \E q \in Queries, val \in Docs, fail \in BOOLEAN : Update(q, val, fail)
    \/ \E q \in Queries, x \in Vals, fail \in BOOLEAN : UpdatePartial(q, x, fail)
    \/ \E q \in Queries, skip \in Offsets, limit \in Offsets, fail \in BOOLEAN :
          List(q, skip, limit, fail)

SpecCrud == Init /\ [][NextCrud]_vars

(* List on a collection that holds any documents, among them the fixture of
   ten documents, keys alternating, numbered by offset *)
Fixture == [i \in 1..10 |-> [k |-> IF i % 2 = 1 THEN "a" ELSE "b",
                             v |-> ToString(i - 1)]]

Collections == UNION {[1..n -> Docs] : n \in 0..MaxDocs} \cup {Fixture}

InitList == \E docs \in Collections : InitHandle(docs, {IdIndex}, 3600)

NextList ==
    \E q \in Queries, skip \in Offsets, limit \in Offsets, fail \in BOOLEAN :
        List(q, skip, limit, fail)

SpecList == InitList /\ [][NextList]_vars

(* Index calls of one handle, on a collection that has no TTL index or has
   one of any expiry *)
Descriptor(keys, name, unique, sparse) ==
    [Keys |-> keys, Name |-> name, Unique |-> unique, Sparse |-> sparse]

Asc(f) == [Key |-> f, Desc |-> FALSE]
Dsc(f) == [Key |-> f, Desc |-> TRUE]

\* the descriptors callers pass: one or two keys, ascending and descending,
\* named and unnamed (two of one name, one named like the TTL index), unique,
\* sparse and neither
Descriptors ==
    {Descriptor(<<Asc("created_at")>>, "", FALSE, FALSE),
     Descriptor(<<Asc("created_at")>>, "TTL", FALSE, FALSE),
     Descriptor(<<Dsc("task_id"), Asc("created_at")>>, "by_task", TRUE, FALSE),
     Descriptor(<<Dsc("task_id"), Asc("created_at")>>, "", FALSE, TRUE),
     Descriptor(<<Dsc("task_id")>>, "by_task", FALSE, FALSE)}

Batches == UNION {[1..n -> Descriptors] : n \in 0..MaxBatch}

InitIndex ==
    \E ttl \in ExpVals :
    \E ixs \in {{IdIndex}} \cup {{IdIndex, TTLModel(e)} : e \in ExpVals} :
        InitHandle(<<>>, ixs, ttl)

NextIndex ==
    \/ \E dropFail \in BOOLEAN, createFail \in BOOLEAN :
          SetTTL(dropFail, createFail)
    \/ \E indices \in Batches, fail \in BOOLEAN : EnsureIndices(indices, fail)
    \/ \E fail \in BOOLEAN : DropIndices(fail)

SpecIndex == InitIndex /\ [][NextIndex]_vars

(* CRUD and index calls of two goroutines on one handle, statement by
   statement *)
CtxDoc == [k |-> "a", v |-> "x"]
CtxQueries == {{"a"}, {"b"}}
CtxBatch == <<Descriptor(<<Dsc("task_id")>>, "by_task", FALSE, FALSE)>>

NextCtx ==
    \/ \E c \in Callers, op \in ContextOps : EnterCall(c, op)
    \/ \E c \in Callers, fail \in BOOLEAN : SetTTLDrop(c, fail)
    \/ \E c \in Callers, fail \in BOOLEAN : SetTTLCreate(c, fail)
    \/ \E c \in Callers, fail \in BOOLEAN : EnsureIndicesCall(c, CtxBatch, fail)
    \/ \E c \in Callers, fail \in BOOLEAN : DropIndicesCall(c, fail)
    \/ \E c \in Callers, q \in CtxQueries, fail \in BOOLEAN : GetCall(c, q, fail)
    \/ \E c \in Callers, fail \in BOOLEAN : CreateCall(c, CtxDoc, fail)
    \/ \E c \in Callers, q \in CtxQueries, fail \in BOOLEAN :
          UpdateCall(c, q, CtxDoc, fail)
    \/ \E c \in Callers, q \in CtxQueries, fail \in BOOLEAN :
          UpdatePartialCall(c, q, "y", fail)
    \/ \E c \in Callers, q \in CtxQueries, fail \in BOOLEAN :
          ListCall(c, q, 0, 1, fail)
    \/ \E c \in Callers, q \in CtxQueries, fail \in BOOLEAN :
          AggregateCall(c, q, fail)
    \/ \E c \in Callers : ReturnCall(c)

SpecCtx == Init /\ [][NextCtx]_vars

----------------------------------------------------------------------------
(* Session tracker: properties *)

\* in map m over the sessions ss, the session id maps to has a started,
\* uncommitted transaction and is open
ActiveIn(m, ss, id) ==
    /\ id \in DOMAIN m
    /\ ss[m[id]].txn = "started"
    /\ ~ss[m[id]].ended

Active(id) == ActiveIn(sess, sessions, id)

\* the entries of every identifier but id are what they were
OthersUntouched(id) ==
    \A j \in Ids \ {id} :
        /\ (j \in DOMAIN sess') = (j \in DOMAIN sess)
        /\ j \in DOMAIN sess => sess'[j] = sess[j]

\* C1: CommitTransaction(id, ctx) for an id that has no entry in the session
\* map returns an error to the caller; it does not fault.
C1_UnknownCommitReturnsError ==
    (last.op = "CommitTransaction" /\ ~last.known) =>
        (last.err # Nil /\ last.err # Panic)

\* C2: every identifier in the session map maps to a session on which a
\* transaction was started and is not yet committed; a failed
\* StartTransaction leaves no entry without a started transaction.
C2_EntriesHaveStartedTransaction ==
    \A id \in DOMAIN sess : Active(id)

\* C3: for an id with no entry, when the driver accepts session creation and
\* transaction start, StartTransaction(id) succeeds and id is Active; when id
\* is Active and the store accepts the commit, CommitTransaction(id, ctx)
\* succeeds and id has no entry; the other identifiers' entries are untouched
\* by both.
C3_Step ==
    /\ (last'.op = "StartTransaction" /\ ~last'.known /\ last'.accept
            /\ last'.id \notin DOMAIN sess) =>
          /\ last'.err = Nil
          /\ ActiveIn(sess', sessions', last'.id)
          /\ OthersUntouched(last'.id)
    /\ (last'.op = "CommitTransaction" /\ last'.known /\ last'.accept
            /\ last'.id \in DOMAIN sess /\ Active(last'.id)) =>
          /\ last'.err = Nil
          /\ last'.id \notin DOMAIN sess'
          /\ OthersUntouched(last'.id)

C3_StartThenCommit == [][C3_Step]_vars

\* a commit has succeeded for one identifier while another keeps its entry
C3_Witness ==
    /\ last.op = "CommitTransaction"
    /\ last.err = Nil
    /\ last.id \notin DOMAIN sess
    /\ \E j \in Ids : Active(j)

\* C4: when the store rejects the commit of an Active id, CommitTransaction
\* returns an error, the session is not ended and the entry for id still maps
\* to the same session; a CommitTransaction(id, ctx) that follows and that the
\* store accepts succeeds and removes the entry.
C4_Step ==
    /\ (last'.op = "CommitTransaction" /\ last'.known /\ ~last'.accept
            /\ last'.id \in DOMAIN sess /\ Active(last'.id)) =>
          /\ last'.err = ErrCommit
          /\ sess' = sess
          /\ ActiveIn(sess', sessions', last'.id)
    /\ (last.op = "CommitTransaction" /\ last.err = ErrCommit
            /\ last'.op = "CommitTransaction" /\ last'.id = last.id
            /\ last'.accept) =>
          /\ last'.err = Nil
          /\ last'.id \notin DOMAIN sess'

C4_RejectedCommitKeepsEntry == [][C4_Step]_vars

\* the store has rejected the commit of an identifier
C4_Witness ==
    /\ last.op = "CommitTransaction"
    /\ last.err = ErrCommit
    /\ Active(last.id)

\* C5: a CRUD call made while a transaction is Active runs in that
\* transaction: the context it hands to the driver carries the session of an
\* Active identifier.
CrudOps == {"Get", "Create", "Update", "UpdatePartial", "List"}

C5_CrudInTransaction ==
    (last.op \in CrudOps /\ \E id \in Ids : Active(id)) =>
        \E id \in Ids : Active(id) /\ last.session = sess[id]

----------------------------------------------------------------------------
(* CRUD facade: properties *)

\* i is the offset of the first document of coll that q matches
IsFirstMatch(coll, q, i) ==
    /\ i \in 1..Len(coll)
    /\ Matches(coll[i], q)
    /\ \A j \in 1..(i - 1) : ~Matches(coll[j], q)

NoMatch(coll, q) == \A j \in 1..Len(coll) : ~Matches(coll[j], q)

\* C7: when the store does not fail, Get(query) with no matching document
\* fails with ErrNotFound, the error Update and UpdatePartial return for zero
\* matches; with a match it returns the first match in store order and no
\* error.
C7_GetNotFound ==
    (last.op = "Get" /\ ~last.fail) =>
        /\ NoMatch(collection, last.q) =>
              (last.err = ErrNotFound /\ last.doc = <<>>)
        /\ \A i \in 1..Len(collection) : IsFirstMatch(collection, last.q, i) =>
              (last.err = Nil /\ last.doc = <<collection[i]>>)

\* C8: Update and UpdatePartial with no matching document fail with
\* ErrNotFound and leave the collection unchanged; with a match they change
\* the first matching document only (Update replaces it by val, UpdatePartial
\* patches it) and return nil; a store failure is returned as an error other
\* than ErrNotFound.
C8_Step ==
    last'.op \in {"Update", "UpdatePartial"} =>
        /\ last'.fail => (last'.err # Nil /\ last'.err # ErrNotFound)
        /\ (~last'.fail /\ NoMatch(collection, last'.q)) =>
              (last'.err = ErrNotFound /\ collection' = collection)
        /\ \A i \in 1..Len(collection) :
              (~last'.fail /\ IsFirstMatch(collection, last'.q, i)) =>
                  /\ last'.err = Nil
                  /\ Len(collection') = Len(collection)
                  /\ \A j \in 1..Len(collection) :
                        j # i => collection'[j] = collection[j]
                  /\ collection'[i] =
                        IF last'.op = "Update" THEN last'.val
                        ELSE [k |-> collection[i].k, v |-> last'.val]

C8_UpdateFirstMatch == [][C8_Step]_vars

\* Update has replaced the second document, the first not matching
C8_Witness ==
    /\ last.op = "Update"
    /\ last.err = Nil
    /\ Len(collection) = 2
    /\ ~Matches(collection[1], last.q)
    /\ collection[2] = last.val
    /\ collection[1] # last.val

\* C9: when the store does not fail, List(q, skip, limit) returns the
\* documents at offsets skip .. skip+limit-1 of the matches in store order,
\* fewer when the matches end earlier, when limit > 0; with limit = 0 it
\* returns every match from offset skip on.
C9_ListWindow ==
    (last.op = "List" /\ ~last.fail) =>
        LET ms == Selected(collection, last.q)
            avail == IF Len(ms) > last.skip THEN Len(ms) - last.skip ELSE 0
            want == IF last.limit = 0 \/ last.limit > avail THEN avail
                    ELSE last.limit IN
        /\ last.err = Nil
        /\ Len(last.cursor) = want
        /\ \A i \in 1..want : last.cursor[i] = ms[last.skip + i]

\* skip = 2, limit = 3 on the ten documents: those at offsets 2, 3, 4
C9_Witness ==
    /\ collection = Fixture
    /\ last.op = "List"
    /\ last.q = QAll /\ last.skip = 2 /\ last.limit = 3
    /\ last.cursor = <<Fixture[3], Fixture[4], Fixture[5]>>

----------------------------------------------------------------------------
(* Index administration: properties *)

\* the indexes of ixs named "TTL"
TTLIndexes(ixs) == {o \in ixs : o.name = "TTL"}

\* C6: a successful SetTTL leaves exactly one index named "TTL", ascending on
\* created_at, expiring after ExpDur seconds, whatever the indexes were; a
\* successful SetTTL right after a successful SetTTL leaves the indexes
\* unchanged; with no index named "TTL" to drop, SetTTL succeeds whenever the
\* store accepts the creation.
C6_Step ==
    /\ (last'.op = "SetTTL" /\ last'.err = Nil) =>
          /\ \A o \in TTLIndexes(indexes') :
                /\ o.keys = <<[Key |-> "created_at", dir |-> 1]>>
                /\ o.expire = ExpDur
          /\ Cardinality(TTLIndexes(indexes')) = 1
    /\ (last.op = "SetTTL" /\ last.err = Nil
            /\ last'.op = "SetTTL" /\ last'.err = Nil) =>
          indexes' = indexes
    /\ (last'.op = "SetTTL" /\ TTLIndexes(indexes) = {} /\ ~last'.fail
            /\ \A o \in indexes :
                  o.keys # <<[Key |-> "created_at", dir |-> 1]>>) =>
          last'.err = Nil

C6_SetTTLIdempotent == [][C6_Step]_vars

\* SetTTL has succeeded on a collection that had no index named "TTL", the
\* drop having failed
C6_Witness ==
    /\ last.op = "SetTTL"
    /\ last.err = Nil
    /\ ~last.hadTTL
    /\ last.dropErr # Nil
    /\ Cardinality(TTLIndexes(indexes)) = 1

\* index o has the keys, flags and (when given) the name of descriptor D
MatchesDescriptor(o, D) ==
    /\ Len(o.keys) = Len(D.Keys)
    /\ \A j \in 1..Len(D.Keys) :
          /\ o.keys[j].Key = D.Keys[j].Key
          /\ o.keys[j].dir = IF D.Keys[j].Desc THEN -1 ELSE 1
    /\ o.unique = D.Unique
    /\ o.sparse = D.Sparse
    /\ D.Name # "" => o.name = D.Name

\* C10: when EnsureIndices(descriptors) returns nil, the collection has, for
\* every descriptor, an index that matches it; when the store rejects the
\* batch, EnsureIndices returns an error.
C10_EnsureIndices ==
    last.op = "EnsureIndices" =>
        /\ last.storeErr # Nil => last.err # Nil
        /\ last.err = Nil =>
              \A j \in 1..Len(last.indices) :
                  \E o \in indexes : MatchesDescriptor(o, last.indices[j])

\* EnsureIndices has succeeded with two descriptors, one with a descending
\* key and no name
C10_Witness ==
    /\ last.op = "EnsureIndices"
    /\ last.err = Nil
    /\ Len(last.indices) = 2
    /\ last.indices[1].Keys # last.indices[2].Keys
    /\ \E j \in 1..2 : /\ last.indices[j].Name = ""
                       /\ last.indices[j].Keys[1].Desc
                       /\ last.indices[j].Unique # last.indices[j].Sparse

----------------------------------------------------------------------------
(* Session tracker: overwritten and leaked sessions *)

\* the sessions no entry of the map refers to
Unreferenced(m, ss) == {s \in 1..Len(ss) : \A j \in DOMAIN m : m[j] # s}

\* the sessions that have not been ended
Open(ss) == {s \in 1..Len(ss) : ~ss[s].ended}

\* C12: StartTransaction(id) for an id that has an entry does not fail on
\* that account (it returns nil when the driver accepts); whenever the session
\* was created the entry for id is replaced by the new session, and the
\* session mapped before is left as it was.  No tracker operation touches a
\* session that no entry refers to, and CommitTransaction(id) touches the
\* session mapped to id only: the replaced session stays uncommitted and
\* open.
C12_Step ==
    /\ (last'.op = "StartTransaction" /\ last'.id \in DOMAIN sess
            /\ last'.accept) =>
          last'.err = Nil
    /\ (last'.op = "StartTransaction" /\ last'.id \in DOMAIN sess
            /\ Len(sessions') > Len(sessions)) =>
          /\ sess'[last'.id] = Len(sessions')
          /\ sess'[last'.id] # sess[last'.id]
          /\ sessions'[sess[last'.id]] = sessions[sess[last'.id]]
    /\ \A s \in Unreferenced(sess, sessions) : sessions'[s] = sessions[s]
    /\ (last'.op = "CommitTransaction" /\ last'.id \in DOMAIN sess) =>
          \A s \in 1..Len(sessions) :
              s # sess[last'.id] => sessions'[s] = sessions[s]

C12_OverwriteLeaksSession == [][C12_Step]_vars

\* an id was started twice and committed: the first session is still open,
\* its transaction uncommitted, and no entry refers to it
C12_Witness ==
    /\ last.op = "CommitTransaction"
    /\ last.err = Nil
    /\ \E s \in Unreferenced(sess, sessions) :
          /\ s < last.session
          /\ sessions[s].txn = "started"
          /\ ~sessions[s].ended

\* C16: when calls are serialized and StartTransaction is never called for
\* an id that has an entry, every session that was created and is not ended
\* is the session of exactly one entry of the map, and there are as many open
\* sessions as entries, whatever the driver accepted or rejected.
C16_NoLeakUnderDiscipline ==
    /\ \A s \in Open(sessions) :
          Cardinality({j \in DOMAIN sess : sess[j] = s}) = 1
    /\ Cardinality(Open(sessions)) = Cardinality(DOMAIN sess)

\* both identifiers have an entry, one after a transaction that did not
\* start, the store has just rejected a commit, and a session has been ended
C16_Witness ==
    /\ last.op = "CommitTransaction"
    /\ last.err = ErrCommit
    /\ Cardinality(DOMAIN sess) = 2
    /\ \E j \in DOMAIN sess : sessions[sess[j]].txn = "none"
    /\ \E s \in 1..Len(sessions) : sessions[s].ended

----------------------------------------------------------------------------
(* Session tracker, statement by statement: properties *)

\* C13: CommitTransaction commits, then ends the session, then removes the
\* entry: a session is ended only when its transaction is committed, an entry
\* is removed only when its session is ended, and when the call returns nil
\* the session it committed is committed and ended and id has no entry.
C13_Step ==
    /\ \A s \in 1..Len(sessions) :
          (sessions'[s].ended /\ ~sessions[s].ended) =>
              sessions[s].txn = "committed"
    /\ \A id \in DOMAIN sess :
          id \notin DOMAIN sess' => sessions[sess[id]].ended
    /\ \A c \in Callers :
          (procs[c].pc = "return" /\ procs'[c].pc = "idle"
              /\ procs[c].op = "CommitTransaction" /\ procs[c].err = Nil) =>
                /\ sessions[procs[c].s].txn = "committed"
                /\ sessions[procs[c].s].ended
                /\ procs[c].id \notin DOMAIN sess

C13_CommitEndDelete == [][C13_Step]_vars

\* between EndSession and delete: the session is committed and ended, the
\* entry is still there
C13_Witness ==
    \E c \in Callers :
        /\ procs[c].pc = "delete"
        /\ procs[c].id \in DOMAIN sess
        /\ sess[procs[c].id] = procs[c].s
        /\ sessions[procs[c].s].txn = "committed"
        /\ sessions[procs[c].s].ended

\* C14: two StartTransaction(id) calls that run together on one id never
\* damage the map; when both are about to return and the driver rejected
\* nothing, the map has an entry for id, it is the session of one of the two,
\* and that session has a started transaction.
C14_LastWriterWins ==
    /\ mapState.kind # "ok" =>
          ~(mapState.ops = {"StartTransaction"} /\ Cardinality(mapState.ids) = 1)
    /\ \A c \in Callers, d \in Callers :
          (/\ c # d
           /\ procs[c].pc = "return" /\ procs[d].pc = "return"
           /\ procs[c].op = "StartTransaction"
           /\ procs[d].op = "StartTransaction"
           /\ procs[c].id = procs[d].id
           /\ {procs[c].err, procs[d].err} \subseteq {Nil, ErrTransactInProgress}
           /\ mapState.kind = "ok") =>
              /\ procs[c].id \in DOMAIN sess
              /\ sess[procs[c].id] \in {procs[c].s, procs[d].s}
              /\ sessions[sess[procs[c].id]].txn = "started"

\* C15: calls that run together for distinct identifiers do not interfere:
\* the map is never raced on by calls for two different identifiers.
C15_DistinctIdsIndependent ==
    mapState.kind # "ok" => Cardinality(mapState.ids) = 1

----------------------------------------------------------------------------
(* Request contexts: properties *)

\* C11: every CRUD and index call has a request context of its own, live
\* while the call runs and cancelled once it has returned, on the success
\* and on the error path: a context that is not cancelled belongs to a call
\* still running, a running call's context is not cancelled, no two running
\* calls have the same context, and the context of the call that returned
\* last is cancelled.
C11_ContextPerCall ==
    /\ \A i \in 1..Len(ctxs) :
          ~ctxs[i].cancelled =>
              \E c \in Callers : InContextCall(c) /\ procs[c].ctx = i
    /\ \A c \in Callers :
          InContextCall(c) =>
              /\ procs[c].ctx \in 1..Len(ctxs)
              /\ ~ctxs[procs[c].ctx].cancelled
    /\ \A c \in Callers, d \in Callers :
          (c # d /\ InContextCall(c) /\ InContextCall(d)) =>
              procs[c].ctx # procs[d].ctx
    /\ last.op \in ContextOps => ctxs[last.ctx].cancelled

\* Aggregate has returned an error while another call is still running
C11_Witness ==
    /\ last.op = "Aggregate"
    /\ last.err # Nil
    /\ ctxs[last.ctx].cancelled
    /\ \E c \in Callers :
          /\ InContextCall(c)
          /\ c # last.caller
          /\ procs[c].ctx < last.ctx

====
